---- MODULE Spec2Model ----
(***************************************************************************)
(* The session/countdown engine of pomodorino: TimerThread (a QThread that *)
(* counts down and signals the GUI thread) and the parts of PomodoroApp    *)
(* that own it.  Two copies of the application exist, src/pomodoro_pyqt.py *)
(* (the baseline view, variant "base") and src/src/pomodoro_pyqt.py (the   *)
(* fullscreen view, variant "full"); TimerThread is identical in both.     *)
(*                                                                         *)
(* The GUI thread runs the Qt event loop.  TimerThread objects are created *)
(* by the GUI thread, so both of their signals reach the PomodoroApp slots *)
(* through queued connections: an emit appends to the GUI thread's event   *)
(* queue and the slot runs when the loop takes the event (mainpc = "loop").*)
(* QThread.wait() blocks the GUI thread, without running the loop, until   *)
(* run() has returned.                                                     *)
(*                                                                         *)
(* The handlers run when the user clicks a button.  The baseline view has  *)
(* Start, Pause, Resume, Reset and the three session buttons; its handlers *)
(* enable and disable Start, Pause and Resume, and a disabled button sends *)
(* no click.  The fullscreen file shows either the normal view (the        *)
(* Start/Pause/Resume button, Reset, the session buttons) or, while        *)
(* is_fullscreen, the fullscreen view (Pause/Resume, Reset, Exit).  Labels,*)
(* the progress bar, the tray, sounds and the task list are left out: no   *)
(* handler reads them.                                                     *)
(***************************************************************************)
EXTENDS Integers, Sequences, FiniteSets

\* Session lengths in seconds (25*60, 5*60 and 15*60 in the source), scaled
\* down so that whole countdowns can be explored.
POMODORO_DURATION == 3
SHORT_BREAK == 1
LONG_BREAK == 2
POMODOROS_BEFORE_LONG_BREAK == 4

\* POMODORO_DURATION as the source writes it, in seconds
POMODORO_DURATION_seconds == 25 * 60

\* The number of TimerThread objects one run may create: under Spec (any
\* order of clicks) and under SpecCycle (start, run to expiry, start again).
MaxThreads == 2
CycleThreads == 9

\* How many undelivered events the GUI loop may fall behind by while it is
\* running (a thread that finds the queue full waits for the loop).
MaxQueue == 1

VARIABLES
    variant,          \* "base" or "full": which of the two files runs
    current_session,  \* PomodoroApp.current_session
    pomodoro_count,   \* PomodoroApp.pomodoro_count
    remaining_time,   \* PomodoroApp.remaining_time
    timer_thread,     \* PomodoroApp.timer_thread: None or a TimerThread
    timer_running,    \* PomodoroApp.timer_running (fullscreen file only)
    is_paused,        \* PomodoroApp.is_paused (fullscreen file only)
    is_fullscreen,    \* PomodoroApp.is_fullscreen (fullscreen file only)
    start_button,     \* start_button.isEnabled() (baseline file)
    pause_button,     \* pause_button.isEnabled() (baseline file)
    resume_button,    \* resume_button.isEnabled() (baseline file)
    threads,          \* the TimerThread objects created so far
    queue,            \* queued signal deliveries waiting in the GUI loop
    mainpc,           \* where the GUI thread is: in the loop, or in a wait()
    breaks,           \* history: the break chosen at each Work expiry
    work_expired,     \* history: handled expiries of countdowns started as
                      \* Work that ran out with no stop() requested
    since_reset,      \* history: reset_timer() has returned and neither
                      \* start_timer() nor set_session() was called since
    notice,           \* history: what the last run of timer_ended dispatched
    delivered,        \* history: the signal delivery handled last
    twin              \* the two files run side by side: one PomodoroApp,
                      \* with its threads and its event queue, for each

buttons == <<start_button, pause_button, resume_button>>

vars == <<variant, current_session, pomodoro_count, remaining_time,
          timer_thread, timer_running, is_paused, is_fullscreen, buttons,
          threads, queue, mainpc, breaks, work_expired, since_reset,
          notice, delivered, twin>>

None == 0

\* The TimerThread objects created so far, numbered in order of creation.
ThreadIds == DOMAIN threads

SessionTypes == {"Work", "Short Break", "Long Break"}

\* a variation of Duration: the two break durations exchanged
Duration_breaks_swapped(session_type) ==
    IF session_type = "Work" THEN POMODORO_DURATION
    ELSE IF session_type = "Short Break" THEN LONG_BREAK
    ELSE SHORT_BREAK

\* duration of a session type: the if/elif/else chain the handlers repeat
Duration(session_type) ==
    IF session_type = "Work" THEN POMODORO_DURATION
    ELSE IF session_type = "Short Break" THEN SHORT_BREAK
    ELSE LONG_BREAK

(***************************************************************************)
(* TimerThread                                                             *)
(***************************************************************************)

\* TimerThread.__init__.  startedAs, pausedAt, ticks, started and stoppedAt
\* are history fields, not fields of the object: the session type at
\* creation, the value of remaining at the last pause(), the number of
\* time_updated signals emitted so far, the number of start() calls and,
\* while run() has not returned, the value of remaining at the last stop().
TimerThread_init(duration, session) ==
    [pc |-> "new", duration |-> duration, remaining |-> duration,
     running |-> FALSE, should_stop |-> FALSE, startedAs |-> session,
     pausedAt |-> 0, ticks |-> 0, started |-> 0, stoppedAt |-> 0]

\* QThread.start(): run() is scheduled.
TimerThread_start(thr) ==
    [thr EXCEPT !.pc = "run", !.started = thr.started + 1]

\* What is left of a finished TimerThread once PomodoroApp.timer_thread no
\* longer refers to it: the object is gone; that it ran, and whether stop()
\* was called on it, is kept as history.
Gone(thr) ==
    [pc |-> "done", duration |-> 0, remaining |-> 0, running |-> FALSE,
     should_stop |-> thr.should_stop, startedAs |-> "Work", pausedAt |-> 0,
     ticks |-> 0, started |-> thr.started, stoppedAt |-> 0]

\* The objects ths after the only reference to them has become ref.
Collect(ths, ref) ==
    [t \in DOMAIN ths |->
        IF ths[t].pc = "done" /\ t # ref THEN Gone(ths[t]) ELSE ths[t]]

\* A pause() that flips the flag instead of clearing it.
TimerThread_pause_toggling(thr) ==
    [thr EXCEPT !.running = ~thr.running, !.pausedAt = thr.remaining]

TimerThread_pause(thr) ==
    [thr EXCEPT !.running = FALSE, !.pausedAt = thr.remaining]

\* A resume() that also calls start() on the thread.
TimerThread_resume_restarting(thr) ==
    [thr EXCEPT !.running = TRUE, !.pausedAt = 0, !.started = thr.started + 1]

TimerThread_resume(thr) == [thr EXCEPT !.running = TRUE, !.pausedAt = 0]

TimerThread_stop(thr) ==
    [thr EXCEPT !.should_stop = TRUE, !.running = FALSE, !.pausedAt = 0,
                !.stoppedAt = IF thr.pc = "done" THEN 0 ELSE thr.remaining]

\* QThread.isFinished(): run() has returned.
IsFinished(t) == threads[t].pc = "done"

\* A wait() that returns at once, whether or not run() has returned.
WaitReturns_without_join(t) == TRUE

\* QThread.wait() returns once run() has returned.
WaitReturns(t) == threads[t].pc = "done"

\* A thread that was started and whose run() has not returned.
Alive(t) == threads[t].pc # "done"

NumThreads == Len(threads)

\* An emit finds room in the GUI thread's event queue.
QueueHasRoom == Len(queue) < MaxQueue \/ mainpc # "loop"

\* An event loop that takes the newest event first.
Post_in_front(q, event) == <<event>> \o q

\* A signal emitted across threads is posted to the receiver's event queue,
\* behind the events already there.
Post(q, event) == Append(q, event)

\* A queued delivery of a signal of thread t.  startedAs and natural are
\* history: the session type t was created for and, for timer_ended,
\* whether no stop() had been requested when it was emitted.
Event(kind, val, t) ==
    [kind |-> kind, val |-> val, src |-> t,
     startedAs |-> threads[t].startedAs, natural |-> ~threads[t].should_stop]

\* A loop that does not look at should_stop.
LoopTest_ignores_stop(thr) == thr.remaining > 0 /\ thr.running

\* the while condition of run()
LoopTest(thr) == thr.remaining > 0 /\ thr.running /\ ~thr.should_stop

\* The test after the loop written with < instead of <=.
EndTest_strict(thr) == thr.remaining < 0

\* the test that guards timer_ended.emit() after the loop
EndTest(thr) == thr.remaining <= 0

GuiUnchanged ==
    UNCHANGED <<variant, twin, notice, delivered, current_session, pomodoro_count, remaining_time,
                timer_thread, timer_running, is_paused, is_fullscreen,
                buttons, mainpc, breaks, work_expired,
                   since_reset>>

\* run(), first two statements
TimerThread_run_begin(t) ==
    /\ threads[t].pc = "run"
    /\ threads' = [threads EXCEPT ![t].running = TRUE,
                                  ![t].remaining = threads[t].duration,
                                  ![t].pc = "test"]
    /\ UNCHANGED queue
    /\ GuiUnchanged

\* run(): the while test; when it fails, the if after the loop and return
TimerThread_run_test(t) ==
    /\ threads[t].pc = "test"
    /\ IF LoopTest(threads[t])
       THEN /\ threads' = [threads EXCEPT ![t].pc = "emit"]
            /\ UNCHANGED queue
       ELSE IF EndTest(threads[t])
       THEN /\ QueueHasRoom
            /\ queue' = Post(queue, Event("timer_ended", 0, t))
            /\ threads' = Collect([threads EXCEPT ![t].pc = "done", ![t].stoppedAt = 0],
                                 timer_thread)
       ELSE /\ threads' = Collect([threads EXCEPT ![t].pc = "done", ![t].stoppedAt = 0],
                                 timer_thread)
            /\ UNCHANGED queue
    /\ GuiUnchanged

\* A tick that reports the value remaining will have after the sleep.
TickValue_decremented(thr) == thr.remaining - 1

\* run(): the argument of time_updated.emit()
TickValue(thr) == thr.remaining

\* An emit over a direct connection: the slot runs in the emitting thread
\* and stores the value at once.
TimerThread_run_emit_direct(t) ==
    /\ threads[t].pc = "emit"
    /\ remaining_time' = TickValue(threads[t])
    /\ threads' = [threads EXCEPT ![t].pc = "sleep",
                                  ![t].ticks = threads[t].ticks + 1]
    /\ UNCHANGED <<variant, twin, notice, delivered, current_session, pomodoro_count,
                   timer_thread, timer_running, is_paused, is_fullscreen,
                   buttons, mainpc, breaks, work_expired, since_reset, queue>>

\* run(): time_updated.emit(remaining)
TimerThread_run_emit(t) ==
    /\ threads[t].pc = "emit"
    /\ QueueHasRoom
    /\ queue' = Post(queue, Event("time_updated", TickValue(threads[t]), t))
    /\ threads' = [threads EXCEPT ![t].pc = "sleep",
                                  ![t].ticks = threads[t].ticks + 1]
    /\ GuiUnchanged

\* run(): time.sleep(1) is over; remaining -= 1
TimerThread_run_sleep(t) ==
    /\ threads[t].pc = "sleep"
    /\ threads' = [threads EXCEPT ![t].remaining = threads[t].remaining - 1,
                                  ![t].pc = "test"]
    /\ UNCHANGED queue
    /\ GuiUnchanged

(***************************************************************************)
(* PomodoroApp                                                             *)
(***************************************************************************)

\* A constructor that starts the display at zero.
PomodoroApp_init_at_zero ==
    /\ current_session = "Work"
    /\ pomodoro_count = 0
    /\ remaining_time = 0
    /\ timer_thread = None
    /\ timer_running = FALSE
    /\ is_paused = FALSE
    /\ is_fullscreen = FALSE

\* PomodoroApp.__init__: the timer variables
PomodoroApp_init ==
    /\ current_session = "Work"
    /\ pomodoro_count = 0
    /\ remaining_time = POMODORO_DURATION
    /\ timer_thread = None
    /\ timer_running = FALSE
    /\ is_paused = FALSE
    /\ is_fullscreen = FALSE

\* PomodoroApp.__init__ of the file v, as a record; nothing was queued and
\* the GUI thread is in its loop
App_init(v) ==
    [variant |-> v, current_session |-> "Work", pomodoro_count |-> 0,
     remaining_time |-> POMODORO_DURATION, timer_thread |-> None,
     timer_running |-> FALSE, is_paused |-> FALSE, is_fullscreen |-> FALSE,
     threads |-> <<>>, queue |-> <<>>, mainpc |-> "loop"]

Init ==
    /\ variant \in {"base", "full"}
    /\ PomodoroApp_init
    /\ start_button = TRUE
    /\ pause_button = FALSE
    /\ resume_button = FALSE
    /\ threads = <<>>
    /\ queue = <<>>
    /\ mainpc = "loop"
    /\ breaks = <<>>
    /\ work_expired = 0
    /\ since_reset = FALSE
    /\ notice = [title |-> "none", sent |-> 0, failed |-> FALSE]
    /\ delivered = [kind |-> "none", val |-> 0, src |-> None]
    /\ twin = [base |-> App_init("base"), full |-> App_init("full")]

\* setEnabled() on the Start, Pause and Resume buttons of the baseline view
setEnabled(start, pause, resume) ==
    IF variant = "base"
    THEN /\ start_button' = start
         /\ pause_button' = pause
         /\ resume_button' = resume
    ELSE UNCHANGED buttons

set_session(session_type) ==
    /\ mainpc = "loop"
    /\ current_session' = session_type
    /\ remaining_time' = Duration(session_type)
    /\ since_reset' = FALSE
    /\ UNCHANGED <<variant, twin, notice, delivered, pomodoro_count, timer_thread, timer_running,
                   is_paused, is_fullscreen, buttons, threads, queue, mainpc,
                   breaks, work_expired>>

\* start_timer, first branch: TimerThread(duration), connect, start(), and
\* the view changes that follow it
CreateAndStart ==
    /\ threads' = Collect(Append(threads,
                                 TimerThread_start(
                                    TimerThread_init(Duration(current_session),
                                                     current_session))),
                          NumThreads + 1)
    /\ timer_thread' = NumThreads + 1
    /\ timer_running' = (variant = "full")
    /\ is_paused' = FALSE
    /\ is_fullscreen' = (variant = "full")
    /\ setEnabled(FALSE, TRUE, FALSE)

\* start_timer: up to the return, or up to the wait() of the reset_timer()
\* call in its else branch
start_timer(limit) ==
    /\ mainpc = "loop"
    /\ NumThreads < limit
    /\ IF timer_thread = None \/ IsFinished(timer_thread)
       THEN /\ CreateAndStart
            /\ UNCHANGED <<remaining_time, mainpc>>
       ELSE /\ threads' = [threads EXCEPT
                             ![timer_thread] = TimerThread_stop(threads[timer_thread])]
            /\ mainpc' = "start_timer"
            /\ UNCHANGED <<remaining_time, timer_thread, timer_running,
                           is_paused, is_fullscreen, buttons>>
    /\ since_reset' = FALSE
    /\ UNCHANGED <<variant, twin, notice, delivered, current_session, pomodoro_count, queue, breaks,
                   work_expired>>

\* timer_thread as reset_timer() leaves it: the fullscreen file forgets the
\* thread, the baseline keeps its reference
AfterResetTail == IF variant = "full" THEN None ELSE timer_thread

\* start_timer, else branch: wait() has returned; the rest of reset_timer()
\* and then the recursive start_timer(): it creates the thread if the one
\* reset_timer() left is None or finished, and otherwise calls reset_timer()
\* and itself once more
start_timer_restart ==
    /\ mainpc \in {"start_timer", "start_timer_nested"}
    /\ WaitReturns(timer_thread)
    /\ remaining_time' = Duration(current_session)
    /\ IF AfterResetTail = None \/ IsFinished(AfterResetTail)
       THEN /\ CreateAndStart
            /\ mainpc' = "loop"
       ELSE /\ threads' = [threads EXCEPT
                             ![timer_thread] = TimerThread_stop(threads[timer_thread])]
            /\ mainpc' = "start_timer_nested"
            /\ timer_running' = FALSE
            /\ is_paused' = FALSE
            /\ is_fullscreen' = FALSE
            /\ setEnabled(TRUE, FALSE, FALSE)
            /\ UNCHANGED timer_thread
    /\ since_reset' = FALSE
    /\ UNCHANGED <<variant, twin, notice, delivered, current_session, pomodoro_count, queue, breaks,
                   work_expired>>

pause_timer ==
    /\ mainpc = "loop"
    /\ IF timer_thread # None /\ threads[timer_thread].running
       THEN /\ threads' = [threads EXCEPT
                          ![timer_thread] = TimerThread_pause(threads[timer_thread])]
            /\ setEnabled(TRUE, FALSE, TRUE)
       ELSE UNCHANGED <<threads, buttons>>
    /\ UNCHANGED <<variant, twin, notice, delivered, current_session, pomodoro_count, remaining_time,
                   timer_thread, timer_running, is_paused, is_fullscreen,
                   queue, mainpc, breaks, work_expired,
                   since_reset>>

resume_timer ==
    /\ mainpc = "loop"
    /\ IF timer_thread # None /\ ~threads[timer_thread].running
       THEN /\ threads' = [threads EXCEPT
                          ![timer_thread] = TimerThread_resume(threads[timer_thread])]
            /\ setEnabled(FALSE, TRUE, FALSE)
       ELSE UNCHANGED <<threads, buttons>>
    /\ UNCHANGED <<variant, twin, notice, delivered, current_session, pomodoro_count, remaining_time,
                   timer_thread, timer_running, is_paused, is_fullscreen,
                   queue, mainpc, breaks, work_expired,
                   since_reset>>

\* fullscreen file only: the single Start/Pause/Resume button of the normal
\* view
on_primary_button_clicked(limit) ==
    /\ variant = "full"
    /\ IF timer_thread = None \/ IsFinished(timer_thread)
       THEN start_timer(limit)
       ELSE IF threads[timer_thread].running
            THEN pause_timer
            ELSE resume_timer

\* fullscreen file only: the Pause/Resume button of the fullscreen view
toggle_pause_fullscreen ==
    /\ mainpc = "loop"
    /\ variant = "full"
    /\ IF timer_thread # None
       THEN IF is_paused
            THEN /\ threads' = [threads EXCEPT
                       ![timer_thread] = TimerThread_resume(threads[timer_thread])]
                 /\ is_paused' = FALSE
            ELSE /\ threads' = [threads EXCEPT
                       ![timer_thread] = TimerThread_pause(threads[timer_thread])]
                 /\ is_paused' = TRUE
       ELSE UNCHANGED <<threads, is_paused>>
    /\ UNCHANGED <<variant, twin, notice, delivered, current_session, pomodoro_count, remaining_time,
                   timer_thread, timer_running, is_fullscreen, buttons, queue,
                   mainpc, breaks, work_expired,
                   since_reset>>

\* reset_timer after its wait(): the fullscreen file forgets the thread and
\* clears its flags; both re-arm remaining_time for the current session
ResetTail ==
    /\ timer_thread' = IF variant = "full" THEN None ELSE timer_thread
    /\ threads' = Collect(threads, timer_thread')
    /\ timer_running' = FALSE
    /\ is_paused' = FALSE
    /\ is_fullscreen' = FALSE
    /\ remaining_time' = Duration(current_session)
    /\ setEnabled(TRUE, FALSE, FALSE)
    /\ since_reset' = TRUE

\* a variation of ResetFrame: reset goes back to the Work session
ResetFrame_back_to_work ==
    /\ current_session' = "Work"
    /\ UNCHANGED pomodoro_count

\* reset_timer reads current_session to pick the duration and assigns neither
\* current_session nor pomodoro_count
ResetFrame ==
    UNCHANGED <<current_session, pomodoro_count>>

\* reset_timer: up to the return, or up to its wait()
reset_timer ==
    /\ mainpc = "loop"
    /\ IF timer_thread # None
       THEN /\ threads' = [threads EXCEPT
                             ![timer_thread] = TimerThread_stop(threads[timer_thread])]
            /\ mainpc' = "reset_timer"
            /\ UNCHANGED <<remaining_time, timer_thread, timer_running,
                           is_paused, is_fullscreen, buttons, since_reset>>
       ELSE /\ ResetTail
            /\ UNCHANGED mainpc
    /\ ResetFrame
    /\ UNCHANGED <<variant, twin, notice, delivered, queue, breaks, work_expired>>

\* reset_timer: wait() has returned
reset_timer_return ==
    /\ mainpc = "reset_timer"
    /\ WaitReturns(timer_thread)
    /\ ResetTail
    /\ mainpc' = "loop"
    /\ ResetFrame
    /\ UNCHANGED <<variant, twin, notice, delivered, queue, breaks, work_expired>>

\* the slot of time_updated, run for the event at the head of the queue
update_time ==
    /\ mainpc = "loop"
    /\ queue # <<>>
    /\ Head(queue).kind = "time_updated"
    /\ remaining_time' = Head(queue).val
    /\ queue' = Tail(queue)
    /\ delivered' = [kind |-> "time_updated", val |-> Head(queue).val,
                     src |-> Head(queue).src]
    /\ UNCHANGED <<variant, twin, notice, current_session, pomodoro_count, timer_thread,
                   timer_running, is_paused, is_fullscreen, buttons, threads,
                   mainpc, breaks, work_expired,
                   since_reset>>

\* The long-break test made on the count before its increment.
NextSession_before_increment(session, count) ==
    IF session = "Work"
    THEN IF (count - 1) % POMODOROS_BEFORE_LONG_BREAK = 0
         THEN "Long Break" ELSE "Short Break"
    ELSE "Work"

\* timer_ended: the session that follows session, with count completed
NextSession(session, count) ==
    IF session = "Work"
    THEN IF count % POMODOROS_BEFORE_LONG_BREAK = 0
         THEN "Long Break" ELSE "Short Break"
    ELSE "Work"

\* A count that every expiry increments, breaks included.
NextCount_every_expiry(session, count) == count + 1

\* timer_ended: pomodoro_count after the expiry of session
NextCount(session, count) == IF session = "Work" THEN count + 1 ELSE count

\* A handler that leaves remaining_time as the last tick set it.
RearmedTime_not_rearmed(session) == remaining_time

\* timer_ended: remaining_time re-armed for the session that follows
RearmedTime(session) == Duration(session)

\* platform.system()
Systems == {"Darwin", "Linux", "Windows", "Other"}

\* timer_ended: the title of the notification for a session that has ended
Title(session) ==
    IF session = "Work" THEN "Pomodoro Session Complete!"
    ELSE "Break Time Over!"

\* The title chosen once the session has been rotated.
NoticeSession_after_rotation == current_session'

\* timer_ended: the session the title and message are chosen from, read at
\* the top of the handler
NoticeSession == current_session

\* A dispatch with no try/except around it: what it raises escapes.
Escapes_no_except(raises) == raises

\* A dispatch inside try: ... except: (a bare except): nothing it raises
\* escapes.
Escapes(raises) == FALSE

\* send_notification raises to its caller: each platform branch dispatches
\* inside a try/except of its own, the last branch only prints.
send_notification_raises(system, raises) ==
    IF system \in {"Darwin", "Linux", "Windows"} THEN Escapes(raises)
    ELSE FALSE

\* timer_ended: the sound block raises out of its try/except
sound_raises(system, raises) ==
    IF system \in {"Darwin", "Linux", "Windows"} THEN Escapes(raises)
    ELSE FALSE

\* A handler that returns to the normal view without clearing is_paused.
timer_ended_rotate_keeps_paused ==
    /\ pomodoro_count' = NextCount(current_session, pomodoro_count)
    /\ current_session' = NextSession(current_session, pomodoro_count')
    /\ remaining_time' = RearmedTime(current_session')
    /\ timer_running' = FALSE
    /\ is_paused' = is_paused
    /\ is_fullscreen' = FALSE
    /\ breaks' = IF current_session = "Work"
                 THEN Append(breaks, current_session') ELSE breaks

\* timer_ended: the rotation, the re-arming and the return to the normal
\* view
timer_ended_rotate ==
    /\ pomodoro_count' = NextCount(current_session, pomodoro_count)
    /\ current_session' = NextSession(current_session, pomodoro_count')
    /\ remaining_time' = RearmedTime(current_session')
    /\ timer_running' = FALSE
    /\ is_paused' = FALSE
    /\ is_fullscreen' = FALSE
    /\ breaks' = IF current_session = "Work"
                 THEN Append(breaks, current_session') ELSE breaks

\* the slot of timer_ended, run for the event at the head of the queue; the
\* platform and whether each dispatch raises are inputs.  An exception that
\* left the slot would end it before the rotation.
timer_ended ==
    /\ mainpc = "loop"
    /\ queue # <<>>
    /\ Head(queue).kind = "timer_ended"
    /\ \E system \in Systems, notify_fails \in BOOLEAN, sound_fails \in BOOLEAN :
          /\ IF \/ send_notification_raises(system, notify_fails)
                \/ sound_raises(system, sound_fails)
             THEN UNCHANGED <<pomodoro_count, current_session, remaining_time,
                              timer_running, is_paused, is_fullscreen, breaks>>
             ELSE timer_ended_rotate
          /\ notice' = [title |-> Title(NoticeSession), sent |-> 1,
                        failed |-> notify_fails \/ sound_fails]
    /\ work_expired' = IF Head(queue).startedAs = "Work" /\ Head(queue).natural
                       THEN work_expired + 1 ELSE work_expired
    /\ delivered' = [kind |-> "timer_ended", val |-> 0, src |-> Head(queue).src]
    /\ queue' = Tail(queue)
    /\ UNCHANGED <<variant, twin, timer_thread, buttons, threads, mainpc,
                   since_reset>>

(***************************************************************************)
(* Specifications                                                          *)
(***************************************************************************)

ThreadStep ==
    \/ \E t \in ThreadIds : TimerThread_run_begin(t)
    \/ \E t \in ThreadIds : TimerThread_run_test(t)
    \/ \E t \in ThreadIds : TimerThread_run_emit(t)
    \/ \E t \in ThreadIds : TimerThread_run_sleep(t)

\* The normal view is on screen (always, in the baseline file).
NormalView == ~is_fullscreen

\* Clicks: a button sends clicked only while it is shown and enabled.
StartClicked(limit) ==
    IF variant = "base"
    THEN start_button /\ start_timer(limit)
    ELSE NormalView /\ on_primary_button_clicked(limit)

PauseClicked ==
    IF variant = "base"
    THEN pause_button /\ pause_timer
    ELSE is_fullscreen /\ toggle_pause_fullscreen

ResumeClicked == variant = "base" /\ resume_button /\ resume_timer

\* Reset of the normal view; Reset and Exit of the fullscreen view
ResetClicked == reset_timer

SessionClicked(session_type) == NormalView /\ set_session(session_type)

\* Any click the view allows, in any order, interleaved with the countdown
\* threads and with the delivery of their signals.
Next ==
    \/ ThreadStep
    \/ update_time
    \/ timer_ended
    \/ StartClicked(MaxThreads)
    \/ start_timer_restart
    \/ PauseClicked
    \/ ResumeClicked
    \/ ResetClicked
    \/ reset_timer_return
    \/ \E s \in SessionTypes : SessionClicked(s)

Spec == Init /\ [][Next]_vars

\* No countdown is in flight: no thread alive and no event waiting.
Quiet == queue = <<>> /\ \A t \in ThreadIds : ~Alive(t)

\* Start clicked only when the previous countdown has run to expiry and its
\* events have been handled.  In the baseline view the Start button is still
\* disabled then, and Reset enables it.
CycleStart == Quiet /\ StartClicked(CycleThreads)

CycleReset == Quiet /\ variant = "base" /\ ~start_button /\ ResetClicked

NextCycle ==
    \/ ThreadStep
    \/ update_time
    \/ timer_ended
    \/ CycleStart
    \/ CycleReset
    \/ reset_timer_return

SpecCycle == Init /\ [][NextCycle]_vars

(***************************************************************************)
(* Properties                                                              *)
(***************************************************************************)

NumAlive == Cardinality({t \in ThreadIds : Alive(t)})

\* pause() was the last call on thread t, whose run() has begun: its running
\* flag is down and no stop() was requested.
Paused(t) ==
    /\ threads[t].pc # "run"
    /\ ~threads[t].running
    /\ ~threads[t].should_stop

\* The controller's countdown is ticking: its thread is in the loop of
\* run(), neither paused nor stopped.
PhaseRunning ==
    /\ timer_thread # None
    /\ threads[timer_thread].pc \in {"test", "emit", "sleep"}
    /\ threads[timer_thread].running
    /\ ~threads[timer_thread].should_stop

\* The controller is in its Paused phase: is_paused in the fullscreen file,
\* a paused thread in the baseline file.
PhasePaused ==
    IF variant = "full" THEN is_paused
    ELSE timer_thread # None /\ Paused(timer_thread)

\* This step appends an event of this kind to the queue.
Emits(kind) ==
    /\ Len(queue') = Len(queue) + 1
    /\ queue'[Len(queue')].kind = kind

\* C1: whenever the expiry handler runs with session type Work, the count
\* grows by exactly one and the new session is Long Break if and only if the
\* new count is a multiple of 4, and Short Break otherwise; whenever it runs
\* with a break type, the new session is Work and the count is unchanged.
C1_RotationStep ==
    [][timer_ended =>
         IF current_session = "Work"
         THEN /\ pomodoro_count' = pomodoro_count + 1
              /\ current_session' =
                    IF pomodoro_count' % 4 = 0 THEN "Long Break" ELSE "Short Break"
         ELSE /\ current_session' = "Work"
              /\ pomodoro_count' = pomodoro_count]_vars

\* C1 witness: the handler has run for four Work sessions and for the long
\* break that follows the fourth, which left the count at 4.
C1_Witness ==
    /\ Len(breaks) = 4
    /\ current_session = "Work"
    /\ pomodoro_count = 4

\* C2: with start() followed each time by an uninterrupted run to expiry,
\* the breaks chosen at the first four Work expiries are Short, Short, Short,
\* Long in that order, and once the fourth Work expiry is handled (until the
\* long break is started) the state is Long Break, LONG_BREAK seconds, 4.
C2_FourCycles ==
    /\ \A i \in 1 .. Len(breaks) :
          i <= 4 => breaks[i] = IF i = 4 THEN "Long Break" ELSE "Short Break"
    /\ (Len(breaks) = 4 /\ current_session # "Work" /\ Quiet) =>
          /\ current_session = "Long Break"
          /\ remaining_time = LONG_BREAK
          /\ pomodoro_count = 4

\* C2 witness: the fourth Work expiry has just been handled.
C2_Witness ==
    /\ breaks = <<"Short Break", "Short Break", "Short Break", "Long Break">>
    /\ current_session = "Long Break"
    /\ Quiet

\* C3: no tick and no expiry of a countdown on which stop() was called is
\* delivered once the reset_timer() that stopped it has returned (slots run
\* only while the GUI thread is in its loop, so after that return).
C3_NoLateEvent ==
    [][(update_time \/ timer_ended) => ~threads[Head(queue).src].should_stop]_vars

\* C4: a thread on which stop() has been called never emits timer_ended,
\* and a thread emits timer_ended at most once (with it, run() returns).
C4_ExpiryOnlyNatural ==
    [][Emits("timer_ended") =>
         /\ ~threads[queue'[Len(queue')].src].should_stop
         /\ threads[queue'[Len(queue')].src].pc # "done"
         /\ threads'[queue'[Len(queue')].src].pc = "done"]_vars

\* C5: when resume() follows pause() at a remaining value R > 0, the
\* thread's remaining value is still R and the thread is still in its loop,
\* so that it goes on ticking from R.
C5_PauseResume ==
    [][\A t \in ThreadIds :
         (Paused(t) /\ threads[t].pausedAt > 0 /\ threads'[t].running) =>
            /\ threads[t].remaining = threads[t].pausedAt
            /\ threads'[t].pc \in {"test", "emit", "sleep"}]_vars

\* C6: while a countdown is paused its remaining value does not change and
\* it emits nothing, and the expiry handler never runs while the controller
\* is in its Paused phase.
C6_PausedFrozen ==
    [][/\ \A t \in ThreadIds :
            Paused(t) =>
               /\ threads'[t].remaining = threads[t].remaining
               /\ ~(Len(queue') = Len(queue) + 1 /\ queue'[Len(queue')].src = t)
       /\ timer_ended => ~PhasePaused]_vars

\* C7: at most one countdown thread is alive (started, run() not returned).
C7_OneThreadAlive == NumAlive <= 1

\* C7 witness: a second thread is running; the first was stopped and joined
\* before the second was created, and an event is waiting in the queue.
C7_Witness ==
    /\ NumThreads = 2
    /\ threads[1].pc = "done"
    /\ threads[1].should_stop
    /\ Alive(2)
    /\ queue # <<>>

\* C8: remaining_time lies in 0 .. duration(current_session).
C8_RemainingInRange ==
    remaining_time >= 0 /\ remaining_time <= Duration(current_session)

\* C9: set_session() called while the countdown is running changes neither
\* current_session nor remaining_time, and the expiry of a countdown is
\* rotated as the session type it was started with: to a break after Work,
\* to Work after a break.
C9_SetSessionOnlyIdle ==
    [][/\ (PhaseRunning /\ \E s \in SessionTypes : set_session(s)) =>
            /\ current_session' = current_session
            /\ remaining_time' = remaining_time
       /\ (timer_ended /\ Head(queue).natural) =>
            ((Head(queue).startedAs = "Work") <=> (current_session' # "Work"))]_vars

\* C10: pomodoro_count is the number of handled expiries of countdowns that
\* were started as Work and ran out with no stop() requested.
C10_CountIsWorkExpiries == pomodoro_count = work_expired

\* run() of thread t returns in this step.
Finishes(t) == threads[t].pc # "done" /\ threads'[t].pc = "done"

\* The thread whose signal this step appends to the queue.
Emitter == queue'[Len(queue')].src

\* Every countdown that runs uninterrupted emits timer_ended exactly once:
\* when its run() returns, and not at any other step.
ExpiredExactlyOnce ==
    /\ \A t \in ThreadIds :
          Finishes(t) => Emits("timer_ended") /\ Emitter = t
    /\ Emits("timer_ended") => Finishes(Emitter)

ResetReturns == reset_timer_return \/ (reset_timer /\ timer_thread = None)

\* reset_timer() has returned, and this step is neither a start_timer() nor
\* a set_session() call.
AfterReset == since_reset /\ since_reset'

\* C13: reset_timer() returns with remaining_time = duration(current
\* session), no countdown thread alive and, in the fullscreen file,
\* timer_running and is_paused down; and from then on remaining_time keeps
\* its value until start_timer() or set_session() is called.
C13_ResetRestores ==
    [][/\ ResetReturns =>
            /\ remaining_time' = Duration(current_session')
            /\ \A t \in ThreadIds : ~Alive(t)'
            /\ ~timer_running' /\ ~is_paused'
       /\ AfterReset => remaining_time' = remaining_time]_vars

\* The state in which reset_timer() followed by start_timer() leaves the
\* controller: remaining_time re-armed, every earlier thread joined, and a
\* new thread for the whole duration of the current session, which and the
\* count are as before.
FreshStart ==
    /\ remaining_time' = Duration(current_session)
    /\ current_session' = current_session
    /\ pomodoro_count' = pomodoro_count
    /\ timer_thread' = NumThreads + 1
    /\ threads'[timer_thread'] =
          TimerThread_start(TimerThread_init(Duration(current_session),
                                             current_session))
    /\ \A t \in ThreadIds : ~Alive(t)'

\* C14: start_timer() called while the countdown is Running or Paused
\* leaves the controller as reset_timer() followed by start_timer() would:
\* whether it went through its wait() or returned at once.
C14_StartIsResetThenStart ==
    [][/\ start_timer_restart => FreshStart
       /\ (/\ StartClicked(MaxThreads)
           /\ PhaseRunning \/ PhasePaused
           /\ mainpc' = "loop") => FreshStart]_vars

\* C15: whenever the controller of the fullscreen file is Idle
\* (timer_running is down and no handler is in progress), no TimerThread is
\* alive.
C15_IdleNoThread ==
    (variant = "full" /\ mainpc = "loop" /\ ~timer_running) => NumAlive = 0

\* C16: the expiry handler re-arms remaining_time to the whole duration of
\* the session it rotates to and starts no countdown: it creates no thread
\* and leaves timer_running and is_paused down, after the expiry of the
\* controller's own countdown no thread is alive, and threads are created
\* by start_timer() alone.  From the initial session and count, one Work
\* expiry gives Short Break, SHORT_BREAK seconds and a count of 1.
C16_RearmedNotRestarted ==
    [][/\ timer_ended =>
            /\ remaining_time' = Duration(current_session')
            /\ threads' = threads /\ timer_thread' = timer_thread
            /\ ~timer_running' /\ ~is_paused'
            /\ Head(queue).src = timer_thread => NumAlive' = 0
            /\ (current_session = "Work" /\ pomodoro_count = 0) =>
                  /\ current_session' = "Short Break"
                  /\ remaining_time' = SHORT_BREAK
                  /\ pomodoro_count' = 1
       /\ NumThreads' # NumThreads =>
            StartClicked(MaxThreads) \/ start_timer_restart]_vars

\* C16 witness: the first Work countdown has expired and its expiry has
\* been handled; the short break is armed and nothing runs.
C16_Witness ==
    /\ current_session = "Short Break"
    /\ remaining_time = SHORT_BREAK
    /\ pomodoro_count = 1
    /\ work_expired = 1
    /\ NumThreads = 1
    /\ NumAlive = 0
    /\ queue = <<>>

\* C17: each run of the expiry handler dispatches the notification exactly
\* once, with the title chosen from the session type as it was before the
\* rotation: the session-complete title for Work, the break-over title for
\* a break.
C17_NotifiedBeforeRotation ==
    [][timer_ended =>
         /\ notice'.sent = 1
         /\ notice'.title = IF current_session = "Work"
                            THEN "Pomodoro Session Complete!"
                            ELSE "Break Time Over!"]_vars

\* C17 witness: a break has expired after the first Work session; the
\* break-over notification went out and the session is Work again.
C17_Witness ==
    /\ notice = [title |-> "Break Time Over!", sent |-> 1, failed |-> FALSE]
    /\ current_session = "Work"
    /\ pomodoro_count = 1
    /\ Len(breaks) = 1

\* C18: whether the notification and the sound dispatch succeed or raise,
\* the handler applies the rotation and re-arms remaining_time: its result
\* is the same function of the state it started from.
C18_FailuresSwallowed ==
    [][timer_ended =>
         /\ pomodoro_count' =
               IF current_session = "Work" THEN pomodoro_count + 1
               ELSE pomodoro_count
         /\ current_session' = NextSession(current_session, pomodoro_count')
         /\ remaining_time' = Duration(current_session')
         /\ ~timer_running' /\ ~is_paused' /\ ~is_fullscreen'
         /\ queue' = Tail(queue)]_vars

\* C18 witness: a dispatch raised while the first Work expiry was handled,
\* and the short break is armed all the same.
C18_Witness ==
    /\ notice = [title |-> "Pomodoro Session Complete!", sent |-> 1,
                 failed |-> TRUE]
    /\ current_session = "Short Break"
    /\ remaining_time = SHORT_BREAK
    /\ pomodoro_count = 1

\* C19: reset_timer leaves current_session and pomodoro_count as they were,
\* from its call to its return (the wait() for the thread included), in
\* whatever phase it is called.
C19_ResetKeepsSessionAndCount ==
    [][(reset_timer \/ reset_timer_return \/ mainpc = "reset_timer") =>
         /\ current_session' = current_session
         /\ pomodoro_count' = pomodoro_count]_vars

\* C19 witness: reset_timer was called while the thread of a short break
\* was alive, after one Work session had been counted, and it is waiting
\* for that thread with the session and the count still in place.
C19_Witness ==
    /\ mainpc = "reset_timer"
    /\ Alive(timer_thread)
    /\ threads[timer_thread].startedAs = "Short Break"
    /\ current_session = "Short Break"
    /\ pomodoro_count = 1

\* C20: with no countdown thread alive, set_session(t) makes t the current
\* session and arms remaining_time with the duration of t, for each of the
\* three session types, and leaves pomodoro_count as it was.
C20_SetSessionIdle ==
    [][\A t \in SessionTypes :
         (NumAlive = 0 /\ set_session(t)) =>
            /\ current_session' = t
            /\ remaining_time' = CASE t = "Work" -> POMODORO_DURATION
                                    [] t = "Short Break" -> SHORT_BREAK
                                    [] t = "Long Break" -> LONG_BREAK
            /\ pomodoro_count' = pomodoro_count]_vars

\* C20 witness: after one counted Work session and with nothing running,
\* the session is Long Break with its full duration: the rotation gives
\* Short Break there, so set_session("Long Break") was the last change.
C20_Witness ==
    /\ Quiet
    /\ pomodoro_count = 1
    /\ current_session = "Long Break"
    /\ remaining_time = LONG_BREAK

\* The controller's thread is gone: there is none, or its run() has
\* returned (it expired or was stopped).
NoCountdown == timer_thread = None \/ ~Alive(timer_thread)

\* C21: pause_timer() called while no countdown is running, and
\* resume_timer() called while none is paused (nothing started, after a
\* reset, after a natural expiry), change neither the session, the
\* remaining time, the count and the phase flags nor any thread's flags.
C21_MisuseIsNoOp ==
    [][(\/ pause_timer /\ NoCountdown
        \/ resume_timer /\ (timer_thread = None \/ ~Paused(timer_thread))) =>
         UNCHANGED <<current_session, remaining_time, pomodoro_count,
                     timer_running, is_paused, timer_thread, threads>>]_vars

\* The clicks of Next, with a session button clicked only between
\* countdowns.
NextFair ==
    \/ ThreadStep
    \/ update_time
    \/ timer_ended
    \/ StartClicked(MaxThreads)
    \/ start_timer_restart
    \/ PauseClicked
    \/ ResumeClicked
    \/ ResetClicked
    \/ reset_timer_return
    \/ \E s \in SessionTypes : Quiet /\ SessionClicked(s)

\* NextFair with the scheduling the program relies on: a thread that can
\* take its next step takes it, a wait() whose thread has finished returns,
\* and the GUI loop delivers the event at the head of its queue.
SpecFair ==
    /\ Init /\ [][NextFair]_vars
    /\ WF_vars(ThreadStep)
    /\ WF_vars(reset_timer_return)
    /\ WF_vars(start_timer_restart)
    /\ WF_vars(update_time)
    /\ WF_vars(timer_ended)

\* C22: reset_timer() always returns, whatever the thread it stops was
\* doing (ticking, paused, expired, already stopped), and when it returns
\* the run() of that thread has returned.
C22_ResetJoins ==
    /\ [][reset_timer_return => threads'[timer_thread].pc = "done"]_vars
    /\ (mainpc = "reset_timer") ~> (mainpc = "loop")

\* C22 witness: the baseline reset_timer() has returned after stopping a
\* Work countdown that had counted one second down; the thread it joined is
\* finished with two seconds left.
C22_Witness ==
    /\ mainpc = "loop"
    /\ since_reset
    /\ timer_thread = 1
    /\ threads[1].should_stop
    /\ threads[1].pc = "done"
    /\ threads[1].remaining = POMODORO_DURATION - 1

\* A step of some thread's run(): its position in run() changes.
RunStep == \E t \in ThreadIds : threads'[t].pc # threads[t].pc

\* What the controller owns: the session, the count, the displayed time,
\* its thread reference, its phase flags and its buttons.
controller == <<current_session, pomodoro_count, remaining_time, timer_thread,
                timer_running, is_paused, is_fullscreen, buttons>>

\* A handler of the GUI thread runs: a click or a delivered signal.
Handler ==
    \/ update_time
    \/ timer_ended
    \/ StartClicked(MaxThreads)
    \/ start_timer_restart
    \/ PauseClicked
    \/ ResumeClicked
    \/ ResetClicked
    \/ reset_timer_return
    \/ \E s \in SessionTypes : SessionClicked(s)

\* C23: no step of TimerThread.run changes current_session,
\* pomodoro_count, remaining_time or the controller's phase flags; they
\* change only in steps of the GUI thread's handlers.
C23_ThreadLeavesController ==
    [][/\ RunStep => UNCHANGED controller
       /\ controller' # controller => Handler /\ ~RunStep]_vars

\* C23 witness: the thread has emitted its second tick and sleeps, with one
\* second counted down, while the controller still shows the value of the
\* first tick.
C23_Witness ==
    /\ timer_thread = 1
    /\ threads[1].pc = "sleep"
    /\ threads[1].ticks = 2
    /\ threads[1].remaining = POMODORO_DURATION - 1
    /\ queue # <<>>
    /\ Head(queue).val = POMODORO_DURATION - 1
    /\ remaining_time = POMODORO_DURATION
    /\ current_session = "Work"

\* C24: the signals of a countdown are handled one at a time by the GUI
\* loop, oldest first: the tick values handled for one thread are strictly
\* decreasing, nothing of a thread is handled after its expiry, and no
\* signal of an earlier thread is handled after one of a later thread.
C24_DeliveredInOrder ==
    [][(update_time \/ timer_ended) =>
         /\ mainpc = "loop"
         /\ queue' = Tail(queue)
         /\ delivered.src # None => Head(queue).src >= delivered.src
         /\ Head(queue).src = delivered.src =>
               /\ delivered.kind = "time_updated"
               /\ Head(queue).kind = "time_updated" =>
                     Head(queue).val < delivered.val]_vars

\* C24 witness: the three ticks of the first Work countdown and then its
\* expiry have been handled.
C24_Witness ==
    /\ delivered = [kind |-> "timer_ended", val |-> 0, src |-> 1]
    /\ timer_thread = 1
    /\ threads[1].ticks = POMODORO_DURATION
    /\ work_expired = 1
    /\ queue = <<>>

\* This step is a handler that calls pause(), resume() or stop() on the
\* thread the controller refers to.
CallsThread ==
    \/ reset_timer /\ timer_thread # None
    \/ StartClicked(MaxThreads) /\ mainpc' = "start_timer"
    \/ pause_timer /\ timer_thread # None /\ threads[timer_thread].running
    \/ resume_timer /\ timer_thread # None /\ ~threads[timer_thread].running
    \/ toggle_pause_fullscreen /\ timer_thread # None

\* C25: once stop() has been called on a TimerThread, no handler calls
\* pause(), resume() or stop() on that same object again.
C25_StoppedIsDiscarded ==
    [][CallsThread => ~threads[timer_thread].should_stop]_vars

\* C26: every TimerThread the controller has created has had start() called
\* on it exactly once, in the handler that created it: no thread is left
\* unstarted and none is started again.
C26_StartedOnce ==
    \A t \in ThreadIds : threads[t].started = 1 /\ threads[t].pc # "new"

\* C26 witness: two threads have been created, the first stopped before
\* the second was made; each was started once and the second is ticking.
C26_Witness ==
    /\ NumThreads = 2
    /\ threads[1].should_stop
    /\ threads[1].started = 1
    /\ threads[2].started = 1
    /\ threads[2].pc = "sleep"
    /\ timer_thread = 2

\* The attributes of a TimerThread object, without the history fields.
Attributes(thr) == <<thr.duration, thr.remaining, thr.running, thr.should_stop>>

\* C27: on every TimerThread the program can have, a second pause() right
\* after a pause() changes nothing, and resume() on a thread whose running
\* flag is up leaves its remaining value and its flags as they are.
C27_PauseResumeIdempotent ==
    \A t \in ThreadIds :
       /\ Attributes(TimerThread_pause(TimerThread_pause(threads[t]))) =
             Attributes(TimerThread_pause(threads[t]))
       /\ threads[t].running =>
             Attributes(TimerThread_resume(threads[t])) = Attributes(threads[t])

\* C27 witness: pause() has been called on the thread of a Work countdown
\* with two seconds left; the thread has not yet looked at its flag.
C27_Witness ==
    /\ timer_thread = 1
    /\ threads[1].pc = "test"
    /\ threads[1].pausedAt = POMODORO_DURATION - 1
    /\ Attributes(threads[1]) =
          <<POMODORO_DURATION, POMODORO_DURATION - 1, FALSE, FALSE>>

\* C28: the controller is constructed with session Work, remaining_time the
\* Work duration (25 * 60 = 1500 seconds in the source), a count of 0, its
\* phase flags down and no TimerThread; the first thread appears only when
\* Start is clicked.
C28_InitialState ==
    /\ current_session = "Work"
    /\ remaining_time = POMODORO_DURATION
    /\ POMODORO_DURATION_seconds = 1500
    /\ pomodoro_count = 0
    /\ timer_thread = None /\ NumThreads = 0
    /\ ~timer_running /\ ~is_paused
    /\ [][NumThreads = 0 /\ NumThreads' > 0 => StartClicked(MaxThreads)]_vars

\* C28 witness: the controller as constructed, before any click.
C28_Witness ==
    /\ current_session = "Work"
    /\ remaining_time = POMODORO_DURATION
    /\ pomodoro_count = 0
    /\ timer_thread = None
    /\ threads = <<>>
    /\ queue = <<>>
    /\ start_button /\ ~pause_button /\ ~resume_button
    /\ ~since_reset
    /\ delivered.kind = "none"

\* The controller of the fullscreen file takes its countdown to be running.
BelievesRunning == variant = "full" /\ timer_running /\ ~is_paused

\* C29: with the threads and the GUI loop scheduled fairly, whenever the
\* controller takes its countdown to be running, that ends: the expiry is
\* handled (timer_ended clears timer_running) or the user pauses or resets;
\* and it never takes a countdown to be running while no thread is alive
\* and no event is waiting.
C29_RunningEnds ==
    /\ [](BelievesRunning /\ mainpc = "loop" => NumAlive > 0 \/ queue # <<>>)
    /\ BelievesRunning ~> ~BelievesRunning

\* The number of TimerThread objects one run of SpecFull may create.
FullThreads == 3

\* The fullscreen file alone: the clicks its two views allow, in any order.
\* Its start_timer() is reached only through on_primary_button_clicked(),
\* with no thread or a finished one.
NextFull ==
    \/ ThreadStep
    \/ update_time
    \/ timer_ended
    \/ NormalView /\ on_primary_button_clicked(FullThreads)
    \/ is_fullscreen /\ toggle_pause_fullscreen
    \/ ResetClicked
    \/ reset_timer_return
    \/ \E s \in SessionTypes : SessionClicked(s)

\* The application of src/src/pomodoro_pyqt.py as constructed.
InitFull == Init /\ variant = "full"

SpecFull == InitFull /\ [][NextFull]_vars

\* C30: in the fullscreen file, a click on the Start/Pause/Resume button
\* while the controller's thread has been paused with time left resumes
\* that thread: no new thread is created, and the thread goes on in its
\* loop from the remaining value it was paused at.
C30_PrimaryResumes ==
    [][(/\ NormalView /\ on_primary_button_clicked(FullThreads)
        /\ timer_thread # None
        /\ Paused(timer_thread)
        /\ threads[timer_thread].remaining > 0) =>
         /\ NumThreads' = NumThreads
         /\ timer_thread' = timer_thread
         /\ threads'[timer_thread].running
         /\ threads'[timer_thread].remaining = threads[timer_thread].remaining
         /\ threads'[timer_thread].pc \in {"test", "emit", "sleep"}]_vars

\* C31: whenever no thread is alive, no event is waiting, no handler is in
\* progress and the controller is not in its Paused phase, remaining_time
\* is the whole duration of the current session.
C31_IdleShowsFullDuration ==
    (Quiet /\ mainpc = "loop" /\ ~PhasePaused) =>
       remaining_time = Duration(current_session)

\* C32: once stop() has been called on a thread, its run() begins no new
\* iteration of the loop (it does not pass the while test again), counts
\* down at most once more (after the sleep it was in), and returns.
C32_StopEndsLoop ==
    /\ [][\A t \in ThreadIds :
            threads[t].should_stop =>
               /\ threads[t].pc = "test" => threads'[t].pc # "emit"
               /\ threads'[t].pc # "done" =>
                     threads'[t].remaining >= threads'[t].stoppedAt - 1]_vars
    /\ \A t \in 1 .. MaxThreads :
          (t \in ThreadIds /\ threads[t].should_stop) ~>
             (t \in ThreadIds /\ threads[t].pc = "done")

\* C32 witness: the Work thread was stopped during its first sleep and has
\* counted that second down; it is at the while test, which it will fail.
C32_Witness ==
    /\ mainpc = "reset_timer"
    /\ threads[1].should_stop
    /\ threads[1].pc = "test"
    /\ threads[1].stoppedAt = POMODORO_DURATION
    /\ threads[1].remaining = POMODORO_DURATION - 1
    /\ threads[1].ticks = 1

\* C34: in the fullscreen file, is_paused is up only while timer_running
\* is, and timer_running only while the controller refers to a thread.
C34_FlagsConsistent ==
    variant = "full" =>
       /\ is_paused => timer_running
       /\ timer_running => timer_thread # None

\* C34 witness: after one handled Work expiry, the short break was started
\* and paused in the fullscreen view.
C34_Witness ==
    /\ variant = "full"
    /\ is_paused /\ timer_running /\ is_fullscreen
    /\ timer_thread = 2
    /\ pomodoro_count = 1
    /\ current_session = "Short Break"

(***************************************************************************)
(* Quitting                                                                *)
(***************************************************************************)

\* cleanup(), first try block, up to the return or up to its wait(): the
\* control state while it waits and the one after it has returned are given
\* by the caller.  The tray icon is not modelled.
cleanup(waiting, after) ==
    /\ IF timer_thread # None
       THEN /\ threads' = [threads EXCEPT
                             ![timer_thread] = TimerThread_stop(threads[timer_thread])]
            /\ mainpc' = waiting
       ELSE /\ mainpc' = after
            /\ UNCHANGED threads
    /\ UNCHANGED <<variant, twin, notice, delivered, current_session, pomodoro_count,
                   remaining_time, timer_thread, timer_running, is_paused,
                   is_fullscreen, buttons, queue, breaks, work_expired,
                   since_reset>>

\* quit_app(), the tray menu's Quit: cleanup(), then quit() is scheduled
quit_app ==
    /\ mainpc = "loop"
    /\ cleanup("cleanup_quit_app", "quitting")

\* the slot of aboutToQuit, emitted once quit() is processed
aboutToQuit ==
    /\ mainpc = "quitting"
    /\ cleanup("cleanup_aboutToQuit", "exited")

\* A cleanup() that keeps its reference to the stopped thread.
cleanup_return_keeps_thread ==
    /\ mainpc \in {"cleanup_quit_app", "cleanup_aboutToQuit"}
    /\ WaitReturns(timer_thread)
    /\ mainpc' = IF mainpc = "cleanup_quit_app" THEN "quitting" ELSE "exited"
    /\ UNCHANGED <<variant, twin, notice, delivered, current_session, pomodoro_count,
                   remaining_time, timer_thread, threads, timer_running, is_paused,
                   is_fullscreen, buttons, queue, breaks, work_expired,
                   since_reset>>

\* cleanup(): wait() has returned
cleanup_return ==
    /\ mainpc \in {"cleanup_quit_app", "cleanup_aboutToQuit"}
    /\ WaitReturns(timer_thread)
    /\ timer_thread' = None
    /\ threads' = Collect(threads, timer_thread')
    /\ mainpc' = IF mainpc = "cleanup_quit_app" THEN "quitting" ELSE "exited"
    /\ UNCHANGED <<variant, twin, notice, delivered, current_session, pomodoro_count,
                   remaining_time, timer_running, is_paused,
                   is_fullscreen, buttons, queue, breaks, work_expired,
                   since_reset>>

\* NextFair with the tray menu's Quit.
NextQuit ==
    \/ NextFair
    \/ quit_app
    \/ cleanup_return
    \/ aboutToQuit

\* The scheduling of SpecFair; a cleanup() whose thread has finished
\* returns, and a scheduled quit() is processed.
SpecQuit ==
    /\ Init /\ [][NextQuit]_vars
    /\ WF_vars(ThreadStep)
    /\ WF_vars(reset_timer_return)
    /\ WF_vars(start_timer_restart)
    /\ WF_vars(update_time)
    /\ WF_vars(timer_ended)
    /\ WF_vars(cleanup_return)
    /\ WF_vars(aboutToQuit)

\* cleanup() has returned.
CleanedUp == mainpc \in {"quitting", "exited"}

C36_TicksFromDToOne ==
    /\ [](remaining_time >= 1)
    /\ [](\A i \in 1 .. Len(queue) :
             queue[i].kind = "time_updated" => queue[i].val >= 1)
    /\ [][Emits("time_updated") =>
            /\ queue'[Len(queue')].val \in 1 .. threads[Emitter].duration
            /\ queue'[Len(queue')].val =
                  threads[Emitter].duration - threads[Emitter].ticks]_vars
    /\ [][Emits("timer_ended") =>
            threads[Emitter].ticks = threads[Emitter].duration]_vars
    /\ [][\A t \in ThreadIds :
            Finishes(t) /\ threads[t].running /\ ~threads[t].should_stop =>
               Emits("timer_ended") /\ Emitter = t]_vars

\* C36 witness: the first Work countdown has emitted all its ticks; the last
\* one, carrying 1, has been handled, and the expiry waits in the queue.
C36_Witness ==
    /\ delivered = [kind |-> "time_updated", val |-> 1, src |-> 1]
    /\ remaining_time = 1
    /\ threads[1].ticks = POMODORO_DURATION
    /\ threads[1].duration = POMODORO_DURATION
    /\ queue # <<>>
    /\ Head(queue).kind = "timer_ended"
    /\ Head(queue).src = 1

\* C37: start_timer() returns after at most one recursive call: the
\* recursive call made by its else branch finds the thread that
\* reset_timer() left finished (or None), so it creates and starts the new
\* thread and never calls reset_timer() and itself a second time; and the
\* wait() the else branch blocks in always returns.
C37_RestartDepthOne ==
    /\ [](mainpc # "start_timer_nested")
    /\ [][start_timer_restart =>
            /\ AfterResetTail = None \/ IsFinished(AfterResetTail)
            /\ mainpc' = "loop"
            /\ NumThreads' = NumThreads + 1
            /\ timer_thread' = NumThreads']_vars
    /\ (mainpc = "start_timer") ~> (mainpc = "loop")

\* C37 witness: start_timer() took its else branch while the first
\* countdown had emitted one tick; the stopped thread has finished, so the
\* wait() is about to return and the recursive call to run.
C37_Witness ==
    /\ mainpc = "start_timer"
    /\ timer_thread = 1
    /\ threads[1].should_stop
    /\ threads[1].pc = "done"
    /\ threads[1].ticks = 1
    /\ NumThreads = 1

(***************************************************************************)
(* The two files side by side                                              *)
(*                                                                         *)
(* Each operator below is a handler or a step of the program as a function *)
(* on the record of one PomodoroApp (a), so that the same call, the same   *)
(* thread step and the same delivery can be applied to the baseline file   *)
(* and to the fullscreen file.                                             *)
(***************************************************************************)

\* set_session(session_type)
App_set_session(a, session_type) ==
    [a EXCEPT !.current_session = session_type,
              !.remaining_time = Duration(session_type)]

\* start_timer, first branch: TimerThread(duration), connect, start(); the
\* fullscreen file also raises its flags
App_CreateAndStart(a) ==
    [a EXCEPT !.threads = Append(a.threads,
                                 TimerThread_start(
                                    TimerThread_init(Duration(a.current_session),
                                                     a.current_session))),
              !.timer_thread = Len(a.threads) + 1,
              !.timer_running = (a.variant = "full"),
              !.is_paused = FALSE,
              !.is_fullscreen = (a.variant = "full"),
              !.mainpc = "loop"]

\* A fullscreen reset_timer() that does not re-arm remaining_time.
App_ResetTail_full_keeps_time(a) ==
    [a EXCEPT !.timer_thread = IF a.variant = "full" THEN None ELSE a.timer_thread,
              !.timer_running = FALSE,
              !.is_paused = FALSE,
              !.is_fullscreen = FALSE,
              !.remaining_time = IF a.variant = "full" THEN a.remaining_time
                                 ELSE Duration(a.current_session),
              !.mainpc = "loop"]

\* reset_timer after its wait(): the fullscreen file forgets the thread and
\* clears its flags; both re-arm remaining_time for the current session
App_ResetTail(a) ==
    [a EXCEPT !.timer_thread = IF a.variant = "full" THEN None ELSE a.timer_thread,
              !.timer_running = FALSE,
              !.is_paused = FALSE,
              !.is_fullscreen = FALSE,
              !.remaining_time = Duration(a.current_session),
              !.mainpc = "loop"]

\* stop() on the thread a.timer_thread refers to
App_stop(a) ==
    [a EXCEPT !.threads[a.timer_thread] = TimerThread_stop(a.threads[a.timer_thread])]

\* isFinished() of the thread a.timer_thread refers to
App_IsFinished(a) == a.threads[a.timer_thread].pc = "done"

\* reset_timer: up to the return, or up to its wait() if run() has not
\* returned
App_reset_timer(a) ==
    IF a.timer_thread # None
    THEN IF App_IsFinished(a)
         THEN App_ResetTail(App_stop(a))
         ELSE [App_stop(a) EXCEPT !.mainpc = "reset_timer"]
    ELSE App_ResetTail(a)

\* start_timer: up to the return, or up to the wait() of the reset_timer()
\* call in its else branch
App_start_timer(a) ==
    IF a.timer_thread = None \/ App_IsFinished(a)
    THEN App_CreateAndStart(a)
    ELSE [App_stop(a) EXCEPT !.mainpc = "start_timer"]

\* a wait() returns: the rest of reset_timer() and, in start_timer's else
\* branch, the recursive start_timer()
App_return(a) ==
    IF a.mainpc = "reset_timer"
    THEN App_ResetTail(a)
    ELSE App_start_timer(App_ResetTail(a))

\* pause_timer: the thread part
App_pause_timer(a) ==
    IF a.timer_thread # None /\ a.threads[a.timer_thread].running
    THEN [a EXCEPT !.threads[a.timer_thread] = TimerThread_pause(a.threads[a.timer_thread])]
    ELSE a

\* resume_timer: the thread part
App_resume_timer(a) ==
    IF a.timer_thread # None /\ ~a.threads[a.timer_thread].running
    THEN [a EXCEPT !.threads[a.timer_thread] = TimerThread_resume(a.threads[a.timer_thread])]
    ELSE a

\* The handlers that can be called, with their arguments.
Calls == {<<"start_timer", "">>, <<"pause_timer", "">>, <<"resume_timer", "">>,
          <<"reset_timer", "">>}
         \cup {<<"set_session", s>> : s \in SessionTypes}

\* The handler call c made on a.
App_call(a, c) ==
    CASE c[1] = "start_timer" -> App_start_timer(a)
      [] c[1] = "pause_timer" -> App_pause_timer(a)
      [] c[1] = "resume_timer" -> App_resume_timer(a)
      [] c[1] = "reset_timer" -> App_reset_timer(a)
      [] c[1] = "set_session" -> App_set_session(a, c[2])

\* An emit of a's thread finds room in the GUI thread's event queue.
App_QueueHasRoom(a) == Len(a.queue) < MaxQueue \/ a.mainpc # "loop"

\* Thread t of a can take its next step of run().
App_CanStep(a, t) ==
    /\ t \in DOMAIN a.threads
    /\ a.threads[t].pc \in {"run", "test", "emit", "sleep"}
    /\ \/ App_QueueHasRoom(a)
       \/ a.threads[t].pc \in {"run", "sleep"}
       \/ a.threads[t].pc = "test" /\ (LoopTest(a.threads[t]) \/ ~EndTest(a.threads[t]))

\* The next step of run() in thread t of a.
App_run(a, t) ==
    LET thr == a.threads[t] IN
    CASE thr.pc = "run" ->
            [a EXCEPT !.threads[t] = [thr EXCEPT !.running = TRUE,
                                                 !.remaining = thr.duration,
                                                 !.pc = "test"]]
      [] thr.pc = "test" ->
            IF LoopTest(thr)
            THEN [a EXCEPT !.threads[t].pc = "emit"]
            ELSE IF EndTest(thr)
            THEN [a EXCEPT !.threads[t] = [thr EXCEPT !.pc = "done", !.stoppedAt = 0],
                           !.queue = Post(a.queue, [kind |-> "timer_ended", val |-> 0,
                                                    src |-> t])]
            ELSE [a EXCEPT !.threads[t] = [thr EXCEPT !.pc = "done", !.stoppedAt = 0]]
      [] thr.pc = "emit" ->
            [a EXCEPT !.threads[t] = [thr EXCEPT !.pc = "sleep", !.ticks = thr.ticks + 1],
                      !.queue = Post(a.queue, [kind |-> "time_updated",
                                               val |-> TickValue(thr), src |-> t])]
      [] thr.pc = "sleep" ->
            [a EXCEPT !.threads[t] = [thr EXCEPT !.remaining = thr.remaining - 1,
                                                 !.pc = "test"]]

\* the slot of time_updated
App_update_time(a) ==
    [a EXCEPT !.remaining_time = Head(a.queue).val, !.queue = Tail(a.queue)]

\* the slot of timer_ended: the rotation, the re-arming and, in the
\* fullscreen file, the return to the normal view (no exception leaves the
\* notification and the sound)
App_timer_ended(a) ==
    LET count == NextCount(a.current_session, a.pomodoro_count)
        session == NextSession(a.current_session, count)
    IN [a EXCEPT !.pomodoro_count = count,
                 !.current_session = session,
                 !.remaining_time = RearmedTime(session),
                 !.timer_running = FALSE,
                 !.is_paused = FALSE,
                 !.is_fullscreen = FALSE,
                 !.queue = Tail(a.queue)]

\* The GUI loop of a can deliver the event at the head of its queue.
App_CanDeliver(a) == a.mainpc = "loop" /\ a.queue # <<>>

App_deliver(a) ==
    IF Head(a.queue).kind = "time_updated"
    THEN App_update_time(a)
    ELSE App_timer_ended(a)

\* a is in a wait() whose thread has finished.
App_CanReturn(a) == a.mainpc # "loop" /\ App_IsFinished(a)

\* a once the finished threads it no longer refers to are gone.
App_Collect(a) == [a EXCEPT !.threads = Collect(a.threads, a.timer_thread)]

\* Everything but twin.
single == <<variant, current_session, pomodoro_count, remaining_time,
            timer_thread, timer_running, is_paused, is_fullscreen, buttons,
            threads, queue, mainpc, breaks, work_expired, since_reset,
            notice, delivered>>

\* The same handler is called in both files, while both GUI threads are in
\* their loops.
TwinCall ==
    /\ twin.base.mainpc = "loop" /\ twin.full.mainpc = "loop"
    /\ \E c \in Calls :
          /\ c[1] = "start_timer" =>
                /\ Len(twin.base.threads) < MaxThreads
                /\ Len(twin.full.threads) < MaxThreads
          /\ twin' = [base |-> App_Collect(App_call(twin.base, c)),
                      full |-> App_Collect(App_call(twin.full, c))]
    /\ UNCHANGED single

\* The same thread takes its next step in both files (in each, if it can).
TwinRun ==
    /\ \E t \in 1 .. MaxThreads :
          /\ App_CanStep(twin.base, t) \/ App_CanStep(twin.full, t)
          /\ twin' = [base |-> IF App_CanStep(twin.base, t)
                               THEN App_Collect(App_run(twin.base, t)) ELSE twin.base,
                      full |-> IF App_CanStep(twin.full, t)
                               THEN App_Collect(App_run(twin.full, t)) ELSE twin.full]
    /\ UNCHANGED single

\* Both GUI loops deliver the event at the head of their queue (each, if it
\* has one).
TwinDeliver ==
    /\ App_CanDeliver(twin.base) \/ App_CanDeliver(twin.full)
    /\ twin' = [base |-> IF App_CanDeliver(twin.base)
                         THEN App_Collect(App_deliver(twin.base)) ELSE twin.base,
                full |-> IF App_CanDeliver(twin.full)
                         THEN App_Collect(App_deliver(twin.full)) ELSE twin.full]
    /\ UNCHANGED single

\* The wait() each file is in returns (in each, if it is in one).
TwinReturn ==
    /\ App_CanReturn(twin.base) \/ App_CanReturn(twin.full)
    /\ twin' = [base |-> IF App_CanReturn(twin.base)
                         THEN App_Collect(App_return(twin.base)) ELSE twin.base,
                full |-> IF App_CanReturn(twin.full)
                         THEN App_Collect(App_return(twin.full)) ELSE twin.full]
    /\ UNCHANGED single

NextTwin == TwinCall \/ TwinRun \/ TwinDeliver \/ TwinReturn

InitTwin == Init /\ variant = "base"

SpecTwin == InitTwin /\ [][NextTwin]_vars

\* The core state of a.
Core(a) == <<a.current_session, a.pomodoro_count, a.remaining_time>>

\* The threads of a whose run() has not returned.
AliveIn(a) == {t \in DOMAIN a.threads : a.threads[t].pc # "done"}

\* C33: run side by side on the same handler calls, the same thread steps
\* and the same deliveries, the two files always hold the same
\* current_session, pomodoro_count and remaining_time and the same threads
\* alive; they also hold the same queued events and are in a wait() at the
\* same time, so that the same call or delivery is always possible in both.
C33_SameCore ==
    /\ Core(twin.base) = Core(twin.full)
    /\ AliveIn(twin.base) = AliveIn(twin.full)
    /\ twin.base.queue = twin.full.queue
    /\ twin.base.mainpc = twin.full.mainpc

\* C33 witness: after a countdown, a reset_timer() and a resume_timer(), the
\* baseline file still refers to its finished thread, whose running flag
\* resume_timer() has set, and the fullscreen file refers to none; each has
\* handled a tick and shows the re-armed Work duration.
C33_Witness ==
    /\ twin.base.timer_thread = 1
    /\ twin.full.timer_thread = None
    /\ twin.base.threads[1].pc = "done"
    /\ twin.base.threads[1].running
    /\ twin.base.threads[1].should_stop
    /\ ~twin.full.threads[1].running
    /\ twin.base.threads[1].ticks = 1
    /\ twin.base.remaining_time = POMODORO_DURATION
    /\ twin.base.current_session = "Work"

====
